---- MODULE Spec2Model ----
(***************************************************************************)
(* whats-spinning: the recognition state machine (src/state.py) and the    *)
(* trigger loop that drives it (src/main.py), with the display client      *)
(* (src/lametric.py) and the recognition log (src/logger.py) as far as the *)
(* loop touches them.                                                      *)
(*                                                                         *)
(* Time is the value of time.time(), counted in whole units; one unit is   *)
(* the loop interval.  Durations (cooldown, pause, silence) are counted in *)
(* the same unit.  An optional value (Python's None or a value) is the     *)
(* empty tuple or a one-element tuple.                                     *)
(***************************************************************************)
EXTENDS Integers, Sequences, FiniteSets, TLC

None == <<>>
Some(x) == <<x>>
Max(a, b) == IF a >= b THEN a ELSE b

(* ------------------------------ bounds -------------------------------- *)
\* Last clock value at which a call of the StateManager API is made.
MaxTime == 3
\* Last clock value at which the trigger loop starts a tick.
MaxLoopTime == 12
\* Largest configured max_failed_attempts.
MaxAttempts == 2
\* Largest configured cooldown_sec.
MaxCooldown == 2
\* Largest delta_sec handed to update_silence_duration by an API caller.
MaxDelta == 2
\* Longest capture plus recognition request, in loop intervals.
MaxCapture == 1
\* The configured pause_duration_sec.
MaxPause == 2
\* The configured silence_duration_sec.
MaxSilence == 3
\* Number of recognition attempts after which the loop is no longer followed.
MaxRecognitions == 3
\* The lines of a log file that is read.
MaxLines == 4
\* The largest limit given to read_logs.
MaxLimit == 2
\* The distinct entries a log file can hold.
MaxEntry == 2
\* The calls made on the display client when it is driven alone.
MaxRequests == 4

(* ------------------------- configuration ------------------------------ *)
\* RecognitionConfig.max_failed_attempts: any positive count.
MaxFailedAttemptsChoices == 1..MaxAttempts
\* RecognitionConfig.cooldown_sec: zero (no cooldown) up to MaxCooldown.
CooldownChoices == {0, MaxCooldown}
\* RecognitionConfig.pause_duration_sec: a positive duration.
PauseChoices == {MaxPause}
\* In the loop a pause outlasts a tick, as with the defaults (900 s and
\* 0.2 s): a tick without a capture takes two loop intervals.
LoopPauseChoices == {2 * MaxPause}
\* AudioConfig.silence_duration_sec: a positive duration.
SilenceDurationChoices == {MaxSilence}
\* AudioConfig.volume_threshold_db and silence_threshold_db.
VolumeThresholdDb == -40
SilenceThresholdDb == -50
\* loop_interval of WhatSpinning.run, the unit of time.
LoopInterval == 1
\* The levels get_current_db can report: below the silence threshold, on it,
\* on the volume threshold, above it.
Levels == {-60, -50, -40, -30}

\* RecognitionResult values: title, artist and album (the fields the state
\* machine and the log read).
RecognitionResult(title, artist, album) ==
    [title |-> title, artist |-> artist, album |-> album]
Tracks ==
    { RecognitionResult("t1", "a1", "l1"), RecognitionResult("t1", "a1", "l2"),
      RecognitionResult("t1", "a2", "l1"), RecognitionResult("t2", "a1", "l1") }

(* --------------------------- StateManager ----------------------------- *)
\* StateManager.__init__
StateManager(cooldown_sec, silence_duration_sec, max_failed_attempts, pause_duration_sec) ==
    [ cooldown_sec |-> cooldown_sec,
      silence_duration_sec |-> silence_duration_sec,
      max_failed_attempts |-> max_failed_attempts,
      pause_duration_sec |-> pause_duration_sec,
      last_recognition_time |-> None,
      last_result |-> None,
      silence_start_time |-> None,
      cumulative_silence_duration |-> 0,
      consecutive_failures |-> 0,
      paused_until |-> None,
      notification_deleted |-> FALSE ]

\* A method call as the traces record it: its name, its arguments and the
\* value it returned.  The name comes first: calls of one method have
\* arguments and values of one type.
Call(op, args, ret) == [op |-> op, args |-> args, ret |-> ret]

\* A method's outcome: the object after the call and the value returned.
Outcome(self, ret) == [self |-> self, ret |-> ret]

\* can_recognize without the pause check.
can_recognize_ignoring_pause(self, t) ==
    IF self.last_recognition_time = None
    THEN Outcome(self, TRUE)
    ELSE Outcome(self, t - self.last_recognition_time[1] >= self.cooldown_sec)

\* can_recognize with the cooldown boundary excluded (> for >=).
can_recognize_strict_cooldown(self, t) ==
    IF self.paused_until # None /\ t < self.paused_until[1]
    THEN Outcome(self, FALSE)
    ELSE LET s == IF self.paused_until # None
                  THEN [self EXCEPT !.paused_until = None, !.consecutive_failures = 0]
                  ELSE self
         IN IF s.last_recognition_time = None
            THEN Outcome(s, TRUE)
            ELSE Outcome(s, t - s.last_recognition_time[1] > s.cooldown_sec)

\* can_recognize clearing an expired pause but keeping the failure counter.
can_recognize_keeping_failures(self, t) ==
    IF self.paused_until # None /\ t < self.paused_until[1]
    THEN Outcome(self, FALSE)
    ELSE LET s == [self EXCEPT !.paused_until = None]
         IN IF s.last_recognition_time = None
            THEN Outcome(s, TRUE)
            ELSE Outcome(s, t - s.last_recognition_time[1] >= s.cooldown_sec)

\* can_recognize refusing when there is no earlier recognition.
can_recognize_needing_history(self, t) ==
    IF self.paused_until # None /\ t < self.paused_until[1]
    THEN Outcome(self, FALSE)
    ELSE LET s == IF self.paused_until # None
                  THEN [self EXCEPT !.paused_until = None, !.consecutive_failures = 0]
                  ELSE self
         IN IF s.last_recognition_time = None
            THEN Outcome(s, FALSE)
            ELSE Outcome(s, t - s.last_recognition_time[1] >= s.cooldown_sec)

\* can_recognize refusing at the very time of the last recognition.
can_recognize_not_same_instant(self, t) ==
    IF self.paused_until # None /\ t < self.paused_until[1]
    THEN Outcome(self, FALSE)
    ELSE LET s == IF self.paused_until # None
                  THEN [self EXCEPT !.paused_until = None, !.consecutive_failures = 0]
                  ELSE self
         IN IF s.last_recognition_time = None
            THEN Outcome(s, TRUE)
            ELSE Outcome(s, /\ t - s.last_recognition_time[1] > 0
                            /\ t - s.last_recognition_time[1] >= s.cooldown_sec)

\* can_recognize starting the pause again when asked during it.
can_recognize_extending_pause(self, t) ==
    IF self.paused_until # None /\ t < self.paused_until[1]
    THEN Outcome([self EXCEPT !.paused_until = Some(t + self.pause_duration_sec)],
                 FALSE)
    ELSE LET s == IF self.paused_until # None
                  THEN [self EXCEPT !.paused_until = None, !.consecutive_failures = 0]
                  ELSE self
         IN IF s.last_recognition_time = None
            THEN Outcome(s, TRUE)
            ELSE Outcome(s, t - s.last_recognition_time[1] >= s.cooldown_sec)

\* can_recognize never ending a pause.
can_recognize_never_resuming(self, t) ==
    IF self.paused_until # None
    THEN Outcome(self, FALSE)
    ELSE IF self.last_recognition_time = None
         THEN Outcome(self, TRUE)
         ELSE Outcome(self, t - self.last_recognition_time[1] >= self.cooldown_sec)

\* can_recognize without the cooldown check.
can_recognize_no_cooldown(self, t) ==
    IF self.paused_until # None
    THEN IF t < self.paused_until[1]
         THEN Outcome(self, FALSE)
         ELSE Outcome([self EXCEPT !.consecutive_failures = 0,
                                   !.paused_until = None], TRUE)
    ELSE Outcome(self, TRUE)

\* StateManager.can_recognize, called when time.time() is t.
can_recognize(self, t) ==
    IF self.paused_until # None /\ t < self.paused_until[1]
    THEN Outcome(self, FALSE)
    ELSE LET s == IF self.paused_until # None
                  THEN [self EXCEPT !.paused_until = None, !.consecutive_failures = 0]
                  ELSE self
         IN IF s.last_recognition_time = None
            THEN Outcome(s, TRUE)
            ELSE Outcome(s, t - s.last_recognition_time[1] >= s.cooldown_sec)

\* is_same_track comparing the album as well.
is_same_track_with_album(self, result) ==
    IF self.last_result = None
    THEN FALSE
    ELSE /\ result.title = self.last_result[1].title
         /\ result.artist = self.last_result[1].artist
         /\ result.album = self.last_result[1].album

\* StateManager.is_same_track
is_same_track(self, result) ==
    IF self.last_result = None
    THEN FALSE
    ELSE /\ result.title = self.last_result[1].title
         /\ result.artist = self.last_result[1].artist

\* StateManager.should_repush_notification
should_repush_notification(self) == self.notification_deleted

\* StateManager.reset_notification_deleted
reset_notification_deleted(self) == [self EXCEPT !.notification_deleted = FALSE]

\* StateManager._reset_silence
reset_silence(self) ==
    [self EXCEPT !.silence_start_time = None, !.cumulative_silence_duration = 0]

\* on_recognition without the _reset_silence call.
on_recognition_keeping_silence(self, result, t) ==
    [self EXCEPT !.last_recognition_time = Some(t),
                 !.last_result = Some(result),
                 !.consecutive_failures = 0]

\* StateManager.on_recognition, called when time.time() is t.
on_recognition(self, result, t) ==
    [reset_silence([self EXCEPT !.last_recognition_time = Some(t),
                                !.last_result = Some(result)])
        EXCEPT !.consecutive_failures = 0]

\* on_recognition_failed pausing one failure late (> for >=).
on_recognition_failed_late(self, t) ==
    LET s == [self EXCEPT !.consecutive_failures = @ + 1]
    IN IF s.consecutive_failures > s.max_failed_attempts
       THEN [s EXCEPT !.paused_until = Some(t + s.pause_duration_sec)]
       ELSE s

\* on_recognition_failed starting a cooldown like a success does.
on_recognition_failed_with_cooldown(self, t) ==
    LET s == [self EXCEPT !.consecutive_failures = @ + 1,
                          !.last_recognition_time = Some(t)]
    IN IF s.consecutive_failures >= s.max_failed_attempts
       THEN [s EXCEPT !.paused_until = Some(t + s.pause_duration_sec)]
       ELSE s

\* on_recognition_failed starting the count again when it sets the pause.
on_recognition_failed_recounting(self, t) ==
    LET s == [self EXCEPT !.consecutive_failures = @ + 1]
    IN IF s.consecutive_failures >= s.max_failed_attempts
       THEN [s EXCEPT !.paused_until = Some(t + s.pause_duration_sec),
                      !.consecutive_failures = 0]
       ELSE s

\* StateManager.on_recognition_failed, called when time.time() is t.
on_recognition_failed(self, t) ==
    LET s == [self EXCEPT !.consecutive_failures = @ + 1]
    IN IF s.consecutive_failures >= s.max_failed_attempts
       THEN [s EXCEPT !.paused_until = Some(t + s.pause_duration_sec)]
       ELSE s

\* on_silence forgetting the time of the last recognition only.
on_silence_keeping_track(self) ==
    reset_silence([self EXCEPT !.last_recognition_time = None,
                               !.notification_deleted = TRUE])

\* on_silence leaving the silence tracking as it is (no _reset_silence).
on_silence_keeping_count(self) ==
    [self EXCEPT !.last_recognition_time = None,
                 !.last_result = None,
                 !.notification_deleted = TRUE]

\* on_silence lifting a pause as well.
on_silence_lifting_pause(self) ==
    reset_silence([self EXCEPT !.last_recognition_time = None,
                               !.last_result = None,
                               !.notification_deleted = TRUE,
                               !.paused_until = None,
                               !.consecutive_failures = 0])

\* on_silence forgetting the last track only: the cooldown goes on.
on_silence_keeping_cooldown(self) ==
    reset_silence([self EXCEPT !.last_result = None,
                               !.notification_deleted = TRUE])

\* StateManager.on_silence
on_silence(self) ==
    reset_silence([self EXCEPT !.last_recognition_time = None,
                               !.last_result = None,
                               !.notification_deleted = TRUE])

\* update_silence_duration firing only past the threshold (> for >=).
update_silence_duration_late(self, is_silent, delta_sec, t) ==
    IF is_silent
    THEN LET s == [self EXCEPT
                     !.silence_start_time = IF @ = None THEN Some(t) ELSE @,
                     !.cumulative_silence_duration = @ + delta_sec]
         IN IF s.cumulative_silence_duration > s.silence_duration_sec
            THEN Outcome(on_silence(s), TRUE)
            ELSE Outcome(s, FALSE)
    ELSE Outcome(reset_silence(self), FALSE)

\* update_silence_duration counting every tick as silent.
update_silence_duration_always_counting(self, is_silent, delta_sec, t) ==
    LET s == [self EXCEPT
                !.silence_start_time = IF @ = None THEN Some(t) ELSE @,
                !.cumulative_silence_duration = @ + delta_sec]
    IN IF s.cumulative_silence_duration >= s.silence_duration_sec
       THEN Outcome(on_silence(s), TRUE)
       ELSE Outcome(s, FALSE)

\* update_silence_duration detecting sustained silence once only, until the
\* flag on_silence sets is taken back.
update_silence_duration_firing_once(self, is_silent, delta_sec, t) ==
    IF is_silent
    THEN LET s == [self EXCEPT
                     !.silence_start_time = IF @ = None THEN Some(t) ELSE @,
                     !.cumulative_silence_duration = @ + delta_sec]
         IN IF /\ s.cumulative_silence_duration >= s.silence_duration_sec
               /\ ~s.notification_deleted
            THEN Outcome(on_silence(s), TRUE)
            ELSE Outcome(s, FALSE)
    ELSE Outcome(reset_silence(self), FALSE)

\* StateManager.update_silence_duration, called when time.time() is t.
update_silence_duration(self, is_silent, delta_sec, t) ==
    IF is_silent
    THEN LET s == [self EXCEPT
                     !.silence_start_time = IF @ = None THEN Some(t) ELSE @,
                     !.cumulative_silence_duration = @ + delta_sec]
         IN IF s.cumulative_silence_duration >= s.silence_duration_sec
            THEN Outcome(on_silence(s), TRUE)
            ELSE Outcome(s, FALSE)
    ELSE Outcome(reset_silence(self), FALSE)

\* StateManager.get_status, called when time.time() is t: the two
\* can_recognize calls of the status dictionary, then the reads.
get_status(self, t) ==
    LET first == can_recognize(self, t)
        second == can_recognize(first.self, t)
        s == second.self
    IN Outcome(s,
         [ can_recognize |-> first.ret,
           in_cooldown |-> ~second.ret,
           cooldown_remaining_sec |->
               IF s.last_recognition_time # None
               THEN Some(Max(0, s.cooldown_sec - (t - s.last_recognition_time[1])))
               ELSE None,
           last_recognized |->
               IF s.last_result # None
               THEN Some([title |-> s.last_result[1].title,
                          artist |-> s.last_result[1].artist])
               ELSE None,
           silence_duration_sec |-> s.cumulative_silence_duration,
           consecutive_failures |-> s.consecutive_failures,
           paused |-> s.paused_until # None,
           pause_remaining_sec |->
               IF s.paused_until # None
               THEN Some(Max(0, s.paused_until[1] - t))
               ELSE None ])

(* --------------------------- the log reader ---------------------------- *)
\* A line of the log file: blank (line.strip() is empty), malformed
\* (json.loads raises JSONDecodeError), or the JSON text of an entry.
Lines ==
    {[kind |-> "blank", value |-> 0], [kind |-> "malformed", value |-> 0]}
      \cup {[kind |-> "entry", value |-> v] : v \in 1..MaxEntry}

\* The log file: missing, or its lines in file order.
LogFiles == {None} \cup {Some(f) : f \in UNION {[1..n -> Lines] : n \in 0..MaxLines}}

\* The limit argument: None, or an int (argparse type=int takes any).
Limits == {None} \cup {Some(k) : k \in (-1)..MaxLimit}

\* json.loads(line): the entry the line holds, or JSONDecodeError raised.
json_loads(line) ==
    IF line.kind = "entry"
    THEN [raised |-> FALSE, entry |-> line.value]
    ELSE [raised |-> TRUE, entry |-> 0]

\* The "for line in f" loop of read_logs, entries being the list so far.
RECURSIVE read_lines(_, _)
read_lines(lines, entries) ==
    IF lines = <<>>
    THEN entries
    ELSE LET line == Head(lines)
             parsed == json_loads(line)
         IN read_lines(Tail(lines),
                       IF line.kind # "blank" /\ ~parsed.raised
                       THEN Append(entries, parsed.entry)
                       ELSE entries)

\* list.reverse()
RECURSIVE reverse(_)
reverse(list) ==
    IF list = <<>> THEN <<>> ELSE Append(reverse(Tail(list)), Head(list))

\* list[:k] of Python: the first k elements, or all but the last -k.
slice_to(list, k) ==
    LET stop == IF k >= 0
                THEN (IF k < Len(list) THEN k ELSE Len(list))
                ELSE Max(0, Len(list) + k)
    IN SubSeq(list, 1, stop)

\* read_logs leaving the entries in file order.
read_logs_oldest_first(file, limit) ==
    IF file = None
    THEN <<>>
    ELSE LET entries == read_lines(file[1], <<>>)
         IN IF limit # None THEN slice_to(entries, limit[1]) ELSE entries

\* RecognitionLogger.read_logs
read_logs(file, limit) ==
    IF file = None
    THEN <<>>
    ELSE LET entries == reverse(read_lines(file[1], <<>>))
         IN IF limit # None THEN slice_to(entries, limit[1]) ELSE entries

\* No reader has been run.
NoReader == [file |-> None, limit |-> None, entries |-> None]

(* ------------------------------ state --------------------------------- *)
VARIABLES
    state,        \* WhatSpinning.state, the StateManager object
    now,          \* the value time.time() returns
    call,         \* the last StateManager method called: name, arguments, value returned
    streak,       \* on_recognition_failed calls made since failures were last known to be zero
    pc,           \* where WhatSpinning.run stands
    running,      \* WhatSpinning.running
    current_db,   \* current_db of the tick under way
    dry_run,      \* WhatSpinning.dry_run
    lametric,     \* the LaMetricClient object
    display,      \* the requests the display device has received
    log,          \* the lines of the recognition log file
    history,      \* the outcome of each recognition attempt of the loop
    config,       \* WhatSpinning.config.audio, the two thresholds
    quiet,        \* every level sampled so far was below the silence threshold
    reader        \* a run of "logger --read": the file, the limit, the entries read

vars == <<state, now, call, streak, pc, running, current_db, dry_run,
          lametric, display, log, history, config, quiet, reader>>
loopVars == <<pc, running, current_db, dry_run, lametric, display, log, history,
              config, quiet, reader>>

\* AudioConfig: the thresholds the loop compares the level with.
AudioConfig(volume, silence) ==
    [volume_threshold_db |-> volume, silence_threshold_db |-> silence]

\* LaMetricClient.__init__
LaMetricClient == [last_notification_id |-> None]

\* The count of consecutive on_recognition_failed calls, kept from the calls
\* alone: it restarts where the failure counter is known to be zero and no
\* pause is set (construction, a success while not paused, a pause expiry seen
\* by can_recognize), and is "none" after a success made during a pause.
StreakAfter(op, self, t) ==
    CASE op = "on_recognition_failed" ->
           IF streak.from = "none" THEN streak ELSE [streak EXCEPT !.n = @ + 1]
      [] op = "on_recognition" ->
           IF self.paused_until = None
           THEN [from |-> "success", n |-> 0]
           ELSE [from |-> "none", n |-> 0]
      [] op \in {"can_recognize", "get_status"} ->
           IF self.paused_until # None /\ t >= self.paused_until[1]
           THEN [from |-> "expiry", n |-> 0]
           ELSE streak
      [] OTHER -> streak

ConfigInit ==
    \E c \in CooldownChoices, m \in MaxFailedAttemptsChoices,
       p \in PauseChoices, d \in SilenceDurationChoices :
        state = StateManager(c, d, m, p)

Init ==
    /\ ConfigInit
    /\ now = 1
    /\ call = Call("init", <<>>, None)
    /\ streak = [from |-> "init", n |-> 0]
    /\ pc = "top"
    /\ running = TRUE
    /\ current_db = 0
    /\ dry_run = FALSE
    /\ lametric = LaMetricClient
    /\ display = <<>>
    /\ log = <<>>
    /\ history = <<>>
    /\ config = AudioConfig(VolumeThresholdDb, SilenceThresholdDb)
    /\ quiet = TRUE
    /\ reader = NoReader

(* ------------------ the StateManager API, called freely ---------------- *)
\* The clock when the next call is made: it does not run backwards.
CallTimes == {t \in {now, now + 1} : t <= MaxTime}

\* One call: the object becomes o.self, the call is recorded.
Called(op, args, o, t) ==
    /\ now' = t
    /\ state' = o.self
    /\ call' = Call(op, args, o.ret)
    /\ streak' = StreakAfter(op, state, t)
    /\ UNCHANGED loopVars

CanRecognize ==
    \E t \in CallTimes : Called("can_recognize", <<>>, can_recognize(state, t), t)

IsSameTrack ==
    \E t \in CallTimes, r \in Tracks :
        Called("is_same_track", <<r>>, Outcome(state, is_same_track(state, r)), t)

OnRecognition ==
    \E t \in CallTimes, r \in Tracks :
        Called("on_recognition", <<r>>, Outcome(on_recognition(state, r, t), None), t)

\* The failure counter is followed up to one call past the configured maximum.
OnRecognitionFailed ==
    /\ state.consecutive_failures <= state.max_failed_attempts
    /\ \E t \in CallTimes :
        Called("on_recognition_failed", <<>>, Outcome(on_recognition_failed(state, t), None), t)


UpdateSilenceDuration ==
    \E t \in CallTimes, is_silent \in BOOLEAN, delta_sec \in 1..MaxDelta :
        Called("update_silence_duration", <<is_silent, delta_sec>>,
               update_silence_duration(state, is_silent, delta_sec, t), t)

GetStatus ==
    \E t \in CallTimes : Called("get_status", <<>>, get_status(state, t), t)



Next ==
    \/ CanRecognize
    \/ IsSameTrack
    \/ OnRecognition
    \/ OnRecognitionFailed
    \/ UpdateSilenceDuration
    \/ GetStatus

Spec == Init /\ [][Next]_vars

(* ------------------------- display and log ---------------------------- *)
\* display_text of WhatSpinning.run: f"{result.title} - {result.artist}".
display_text(result) == <<result.title, "-", result.artist>>

\* push_notification forgetting the id kept when the answer names none.
push_notification_dropping_stale_id(client, text, ok, id) ==
    IF ok
    THEN Outcome([client EXCEPT !.last_notification_id = id], TRUE)
    ELSE Outcome(client, FALSE)

\* LaMetricClient.push_notification with the device answering ok or not; id
\* is the id the answer names under "success", None when it names none.  The
\* id is kept when the request succeeded and the answer names one.
push_notification(client, text, ok, id) ==
    IF ok
    THEN Outcome(IF id # None
                 THEN [client EXCEPT !.last_notification_id = id]
                 ELSE client, TRUE)
    ELSE Outcome(client, FALSE)

\* The notification the request of delete_notification() names: the last id
\* kept; with none kept no request is sent.
delete_request(client) == client.last_notification_id

\* LaMetricClient.delete_notification() for the last notification, with the
\* device answering ok or not: nothing to delete without an id; the id is
\* cleared when the request succeeded.
delete_notification(client, ok) ==
    IF client.last_notification_id = None
    THEN Outcome(client, FALSE)
    ELSE IF ok
         THEN Outcome([client EXCEPT !.last_notification_id = None], TRUE)
         ELSE Outcome(client, FALSE)

\* The entry RecognitionLogger.log writes for a result (recognized_at is
\* the time of the write).
log_entry(result, t) ==
    [recognized_at |-> t, title |-> result.title, artist |-> result.artist,
     album |-> result.album]

\* What one pass through a branch of the loop body leaves behind.
Effect(self, client, shown, written, raised) ==
    [self |-> self, client |-> client, shown |-> shown, written |-> written,
     raised |-> raised]

\* The "if result:" branch handling every match like a new track.
recognition_succeeded_always_new(self, client, dry, result, t, push_ok, log_ok) ==
    LET pushed == push_notification(client, display_text(result), push_ok, Some(t))
        shown == IF dry
                 THEN <<[op |-> "would_display", text |-> display_text(result), ok |-> TRUE]>>
                 ELSE <<[op |-> "push", text |-> display_text(result), ok |-> pushed.ret]>>
        client2 == IF dry THEN client ELSE pushed.self
    IN IF log_ok
       THEN Effect(on_recognition(self, result, t), client2, shown,
                   <<log_entry(result, t)>>, FALSE)
       ELSE Effect(self, client2, shown, <<>>, TRUE)

\* The "if result:" branch starting the cooldown for new tracks only.
recognition_succeeded_no_cooldown_on_same(self, client, dry, result, t, push_ok, log_ok) ==
    IF is_same_track(self, result)
    THEN Effect(self, client, <<>>, <<>>, FALSE)
    ELSE recognition_succeeded_always_new(self, client, dry, result, t, push_ok, log_ok)

\* The "if result:" branch giving up on a track the display did not take.
recognition_succeeded_needing_push(self, client, dry, result, t, push_ok, log_ok) ==
    IF ~is_same_track(self, result) /\ ~dry /\ ~push_ok
    THEN Effect(self, client,
                <<[op |-> "push", text |-> display_text(result), ok |-> FALSE]>>,
                <<>>, FALSE)
    ELSE recognition_succeeded_always_new(
             self, client, dry, result, t, push_ok, log_ok)

\* The "if result:" branch pushing a duplicate again while the client holds
\* no notification id (the last push failed).
recognition_succeeded_retrying_push(self, client, dry, result, t, push_ok, log_ok) ==
    IF is_same_track(self, result) /\ (dry \/ client.last_notification_id # None)
    THEN Effect(on_recognition(self, result, t), client, <<>>, <<>>, FALSE)
    ELSE LET pushed == push_notification(client, display_text(result), push_ok, Some(t))
             shown == IF dry
                      THEN <<[op |-> "would_display", text |-> display_text(result),
                              ok |-> TRUE]>>
                      ELSE <<[op |-> "push", text |-> display_text(result),
                              ok |-> pushed.ret]>>
             client2 == IF dry THEN client ELSE pushed.self
         IN IF log_ok
            THEN Effect(on_recognition(self, result, t), client2, shown,
                        <<log_entry(result, t)>>, FALSE)
            ELSE Effect(self, client2, shown, <<>>, TRUE)

\* WhatSpinning.run, the "if result:" branch: a track other than the last one
\* is pushed to the display (printed in dry-run mode) and logged; the
\* cooldown is started in both cases.  A log write that fails raises out of
\* the loop before on_recognition is reached.
recognition_succeeded(self, client, dry, result, t, push_ok, log_ok) ==
    IF is_same_track(self, result)
    THEN Effect(on_recognition(self, result, t), client, <<>>, <<>>, FALSE)
    ELSE LET pushed == push_notification(client, display_text(result), push_ok, Some(t))
             shown == IF dry
                      THEN <<[op |-> "would_display", text |-> display_text(result),
                              ok |-> TRUE]>>
                      ELSE <<[op |-> "push", text |-> display_text(result),
                              ok |-> pushed.ret]>>
             client2 == IF dry THEN client ELSE pushed.self
         IN IF log_ok
            THEN Effect(on_recognition(self, result, t), client2, shown,
                        <<log_entry(result, t)>>, FALSE)
            ELSE Effect(self, client2, shown, <<>>, TRUE)

\* WhatSpinning.run, the "else" branch of "if result:".
recognition_failed(self, client, t) ==
    Effect(on_recognition_failed(self, t), client, <<>>, <<>>, FALSE)

(* ---------------------------- the recognizer -------------------------- *)
\* What a request to the recognition service can end in:
\*   network_error   requests.post raises (connection, timeout)
\*   http_error      raise_for_status raises for a 4xx or 5xx answer
\*   status_nonzero  the body has status.code other than 0
\*   no_metadata     the body has no metadata or an empty music list
\*   missing_key     the body lacks a key or an element the parsing indexes
\*                   (KeyError, IndexError), or is not JSON (ValueError)
\*   wrong_type      the body has a value of another type where the parsing
\*                   calls .get or indexes (AttributeError, TypeError), as
\*                   with "album": null
\*   match           the body names a track
FailureKinds ==
    {"network_error", "http_error", "status_nonzero", "no_metadata",
     "missing_key", "wrong_type"}

Responses ==
    {[kind |-> k, track |-> None] : k \in FailureKinds}
      \cup {[kind |-> "match", track |-> Some(r)] : r \in Tracks}

\* What ACRCloudRecognizer.recognize gives back or raises.
Answer(ret, raised) == [ret |-> ret, raised |-> raised]

\* The exceptions the two except clauses of recognize catch.
caught_by_recognize(kind) ==
    kind \in {"network_error", "http_error", "missing_key"}

\* ACRCloudRecognizer.recognize: the result of a match, None for a failure
\* it reports or catches, the exception for one it does not catch.
recognize(response) ==
    CASE response.kind = "match" -> Answer(response.track, FALSE)
      [] response.kind \in {"status_nonzero", "no_metadata"} -> Answer(None, FALSE)
      [] caught_by_recognize(response.kind) -> Answer(None, FALSE)
      [] OTHER -> Answer(None, TRUE)

(* --------------------------- the trigger loop -------------------------- *)
InitLoop ==
    /\ \E c \in {0, MaxCooldown + 1}, m \in MaxFailedAttemptsChoices,
          p \in LoopPauseChoices, d \in SilenceDurationChoices :
           state = StateManager(c, d, m, p)
    /\ now = 1
    /\ call = Call("init", <<>>, None)
    /\ streak = [from |-> "init", n |-> 0]
    /\ pc = "top"
    /\ running = TRUE
    /\ current_db = 0
    /\ dry_run \in BOOLEAN
    /\ lametric = LaMetricClient
    /\ display = <<>>
    /\ log = <<>>
    /\ history = <<>>
    /\ config = AudioConfig(VolumeThresholdDb, SilenceThresholdDb)
    /\ quiet = TRUE
    /\ reader = NoReader

\* The volume trigger taking a level equal to the threshold as well.
above_volume_threshold_inclusive(db, cfg) == db >= cfg.volume_threshold_db

\* "if current_db > self.config.audio.volume_threshold_db"
above_volume_threshold(db, cfg) == db > cfg.volume_threshold_db

\* The silence comparison turned round.
below_silence_threshold_flipped(db, cfg) == db > cfg.silence_threshold_db

\* "is_silent = current_db < self.config.audio.silence_threshold_db"
below_silence_threshold(db, cfg) == db < cfg.silence_threshold_db

\* Top of "while self.running": get_current_db samples for loop_interval, then
\* the volume trigger and the can_recognize gate.  When recognition is
\* blocked, get_status is read for the status line; time.time() may have
\* moved on between the two calls.
Sample(levels) ==
    /\ pc = "top"
    /\ running
    /\ now + LoopInterval <= MaxLoopTime
    /\ Len(history) < MaxRecognitions
    /\ \E db \in levels :
        LET t == now + LoopInterval
            gate == can_recognize(state, t)
        IN /\ current_db' = db
           /\ quiet' = (quiet /\ below_silence_threshold(db, config))
           /\ IF above_volume_threshold(db, config)
              THEN IF gate.ret
                   THEN /\ now' = t
                        /\ state' = gate.self
                        /\ call' = Call("can_recognize", <<>>, TRUE)
                        /\ streak' = StreakAfter("can_recognize", state, t)
                        /\ pc' = "record"
                   ELSE \E t2 \in {t, t + 1} :
                        LET status == get_status(gate.self, t2)
                        IN /\ now' = t2
                           /\ state' = status.self
                           /\ call' = Call("get_status", <<>>, status.ret)
                           /\ streak' = StreakAfter("get_status", state, t2)
                           /\ pc' = "silence"
              ELSE /\ now' = t
                   /\ pc' = "silence"
                   /\ UNCHANGED <<state, call, streak>>
    /\ UNCHANGED <<running, dry_run, lametric, display, log, history, config,
                   reader>>

\* A tick that may sample any level.
LoopSample == Sample(Levels)

\* The triggered branch: record, recognize, then the outcome.  The capture
\* and the request take d; the answer of recognize is a track, None or an
\* exception, which nothing in run catches.  g is the time the attempt began.
LoopRecognize ==
    /\ pc = "record"
    /\ \E d \in 1..MaxCapture, response \in Responses,
          push_ok \in BOOLEAN, log_ok \in BOOLEAN :
        LET t == now + d
            answer == recognize(response)
            result == answer.ret
            e == IF answer.raised
                 THEN Effect(state, lametric, <<>>, <<>>, TRUE)
                 ELSE IF result = None
                      THEN recognition_failed(state, lametric, t)
                      ELSE recognition_succeeded(state, lametric, dry_run, result[1],
                                                 t, push_ok, log_ok)
            same == result # None /\ is_same_track(state, result[1])
        IN /\ result = None => (push_ok /\ log_ok)
           /\ same => (push_ok /\ log_ok)
           /\ dry_run => push_ok
           /\ now' = t
           /\ state' = e.self
           /\ lametric' = e.client
           /\ display' = display \o e.shown
           /\ log' = log \o e.written
           /\ history' = IF answer.raised
                         THEN history
                         ELSE Append(history, [g |-> now, t |-> t, result |-> result,
                                               same |-> same])
           /\ call' = IF answer.raised THEN Call("recognize", <<response.kind>>, None)
                      ELSE IF e.raised THEN Call("log", <<result[1]>>, None)
                      ELSE IF result = None
                           THEN Call("on_recognition_failed", <<>>, None)
                           ELSE Call("on_recognition", <<result[1]>>, None)
           /\ streak' = IF e.raised THEN streak
                        ELSE IF result = None
                             THEN StreakAfter("on_recognition_failed", state, t)
                             ELSE StreakAfter("on_recognition", state, t)
           /\ pc' = IF e.raised THEN "crashed" ELSE "silence"
    /\ UNCHANGED <<running, current_db, dry_run, config, quiet, reader>>

\* The silence check that ends every tick, the deletion of the notification
\* when sustained silence was detected, and time.sleep(loop_interval).
LoopSilence ==
    /\ pc = "silence"
    /\ pc' = "top"
    /\ now' = now + LoopInterval
    /\ current_db' = 0
    /\ \E delete_ok \in BOOLEAN :
        LET is_silent == below_silence_threshold(current_db, config)
            o == update_silence_duration(state, is_silent, LoopInterval, now)
            deleting == o.ret /\ ~dry_run
            deleted == delete_notification(lametric, delete_ok)
        IN /\ (~deleting \/ lametric.last_notification_id = None) => delete_ok
           /\ state' = o.self
           /\ call' = Call("update_silence_duration", <<is_silent, LoopInterval>>, o.ret)
           /\ streak' = StreakAfter("update_silence_duration", state, now)
           /\ lametric' = IF deleting THEN deleted.self ELSE lametric
           /\ display' = IF deleting
                         THEN Append(display, [op |-> "delete", text |-> <<>>,
                                               ok |-> deleted.ret])
                         ELSE display
    /\ UNCHANGED <<running, dry_run, log, history, config, quiet, reader>>

\* main.signal_handler on SIGINT or SIGTERM: app.stop(), then sys.exit(0)
\* raised wherever the loop stands.
SignalHandler ==
    /\ pc \in {"top", "record", "silence"}
    /\ running
    /\ running' = FALSE
    /\ pc' = "exited"
    /\ UNCHANGED <<state, now, call, streak, current_db, dry_run, lametric,
                   display, log, history, config, quiet, reader>>

NextLoop ==
    \/ LoopSample
    \/ LoopRecognize
    \/ LoopSilence
    \/ SignalHandler

SpecLoop == InitLoop /\ [][NextLoop]_vars

(* ------------------------- reading the log file ------------------------ *)
\* logger.main with --read: a file and a limit are given, nothing is read yet.
InitLogs ==
    /\ state = StateManager(0, MaxSilence, 1, MaxPause)
    /\ now = 1
    /\ call = Call("init", <<>>, None)
    /\ streak = [from |-> "init", n |-> 0]
    /\ pc = "top"
    /\ running = FALSE
    /\ current_db = 0
    /\ dry_run = FALSE
    /\ lametric = LaMetricClient
    /\ display = <<>>
    /\ log = <<>>
    /\ history = <<>>
    /\ config = AudioConfig(VolumeThresholdDb, SilenceThresholdDb)
    /\ quiet = TRUE
    /\ \E f \in LogFiles, k \in Limits :
          reader = [file |-> f, limit |-> k, entries |-> None]

\* entries = logger.read_logs(limit=args.limit)
ReadLogs ==
    /\ reader.entries = None
    /\ reader' = [reader EXCEPT !.entries = Some(read_logs(reader.file, reader.limit))]
    /\ UNCHANGED <<state, now, call, streak, pc, running, current_db, dry_run,
                   lametric, display, log, history, config, quiet>>

NextLogs == ReadLogs

SpecLogs == InitLogs /\ [][NextLogs]_vars

(* ----------------------- the display client alone ---------------------- *)
\* A LaMetricClient with an address and an API key, nothing pushed yet.  The
\* variable display holds the calls made on it, in order: a push with the id
\* the answer named, a delete with the id its request named.  The device
\* numbers the notifications by the place of their push among the calls.
InitDisplay ==
    /\ state = StateManager(0, MaxSilence, 1, MaxPause)
    /\ now = 1
    /\ call = Call("init", <<>>, None)
    /\ streak = [from |-> "init", n |-> 0]
    /\ pc = "top"
    /\ running = FALSE
    /\ current_db = 0
    /\ dry_run = FALSE
    /\ lametric = LaMetricClient
    /\ display = <<>>
    /\ log = <<>>
    /\ history = <<>>
    /\ config = AudioConfig(VolumeThresholdDb, SilenceThresholdDb)
    /\ quiet = TRUE
    /\ reader = NoReader

\* lametric.push_notification(text): the device accepts the notification or
\* not, and its answer to one it accepts names the id or does not.
ClientPush ==
    /\ Len(display) < MaxRequests
    /\ \E r \in Tracks, ok \in BOOLEAN, named \in BOOLEAN :
        LET id == Len(display) + 1
            o == push_notification(lametric, display_text(r), ok,
                                   IF named THEN Some(id) ELSE None)
        IN /\ ~ok => named
           /\ lametric' = o.self
           /\ display' = Append(display, [op |-> "push", text |-> display_text(r),
                                          ok |-> o.ret,
                                          id |-> IF ok /\ named THEN Some(id)
                                                 ELSE None])
           /\ call' = Call("push_notification", <<display_text(r)>>, o.ret)
    /\ UNCHANGED <<state, now, streak, pc, running, current_db, dry_run, log,
                   history, config, quiet, reader>>

\* lametric.delete_notification(): the request, when one is sent, succeeds
\* or fails.
ClientDelete ==
    /\ Len(display) < MaxRequests
    /\ \E ok \in BOOLEAN :
        LET o == delete_notification(lametric, ok)
        IN /\ delete_request(lametric) = None => ok
           /\ lametric' = o.self
           /\ display' = Append(display, [op |-> "delete",
                                          text |-> delete_request(lametric),
                                          ok |-> o.ret])
           /\ call' = Call("delete_notification", <<>>, o.ret)
    /\ UNCHANGED <<state, now, streak, pc, running, current_db, dry_run, log,
                   history, config, quiet, reader>>

NextDisplay ==
    \/ ClientPush
    \/ ClientDelete

SpecDisplay == InitDisplay /\ [][NextDisplay]_vars

(* ------------------ the loop under other thresholds -------------------- *)
\* Thresholds as the configuration file may give them (no order between the
\* two is enforced): the defaults, the two equal, and the silence threshold
\* above the volume threshold.
AudioChoices ==
    {AudioConfig(v, s) : v \in {SilenceThresholdDb, VolumeThresholdDb},
                         s \in {SilenceThresholdDb, VolumeThresholdDb + 10}}

\* The cooldown outlasts the ticks that make up the silence duration (a tick
\* takes two loop intervals), as with the defaults (120 s
\* and 5 s).
InitAudio ==
    /\ \E m \in MaxFailedAttemptsChoices, p \in LoopPauseChoices,
          d \in SilenceDurationChoices :
           state = StateManager(3 * d, d, m, p)
    /\ now = 1
    /\ call = Call("init", <<>>, None)
    /\ streak = [from |-> "init", n |-> 0]
    /\ pc = "top"
    /\ running = TRUE
    /\ current_db = 0
    /\ dry_run = FALSE
    /\ lametric = LaMetricClient
    /\ display = <<>>
    /\ log = <<>>
    /\ history = <<>>
    /\ config \in AudioChoices
    /\ quiet = TRUE
    /\ reader = NoReader

SpecAudio == InitAudio /\ [][NextLoop]_vars

(* ------------------ the loop under continuous loud input --------------- *)
\* The levels above the volume threshold.
LoudLevels == {db \in Levels : db > VolumeThresholdDb}

\* The loop started with a cooldown longer than a tick that records.
InitLoud ==
    /\ \E c \in {0, MaxCooldown + 2}, m \in MaxFailedAttemptsChoices,
          p \in LoopPauseChoices, d \in SilenceDurationChoices :
           state = StateManager(c, d, m, p)
    /\ now = 1
    /\ call = Call("init", <<>>, None)
    /\ streak = [from |-> "init", n |-> 0]
    /\ pc = "top"
    /\ running = TRUE
    /\ current_db = 0
    /\ dry_run \in BOOLEAN
    /\ lametric = LaMetricClient
    /\ display = <<>>
    /\ log = <<>>
    /\ history = <<>>
    /\ config = AudioConfig(VolumeThresholdDb, SilenceThresholdDb)
    /\ quiet = TRUE
    /\ reader = NoReader

\* A tick whose sample is above the volume threshold.
LoudSample == Sample(LoudLevels)

NextLoud ==
    \/ LoudSample
    \/ LoopRecognize
    \/ LoopSilence
    \/ SignalHandler

SpecLoud == InitLoud /\ [][NextLoud]_vars

\* The loop is one thread that never waits for anything but the sound card,
\* the request (timeout=30) and time.sleep: a step that can be taken is
\* taken.  No stop signal need ever arrive.  (Each of these steps moves pc.)
LoudFairness ==
    /\ WF_pc(LoudSample)
    /\ WF_pc(LoopRecognize)
    /\ WF_pc(LoopSilence)

\* The loop started in dry-run mode (no display is driven).
InitLoudDry == InitLoud /\ dry_run = TRUE

SpecLoudFair == InitLoudDry /\ [][NextLoud]_vars /\ LoudFairness

(* ======================= claims on the StateManager API ================ *)
\* A pause is in force at time t.
Paused(self, t) == self.paused_until # None /\ t < self.paused_until[1]
\* A pause was set and has run out at time t.
Expired(self, t) == self.paused_until # None /\ t >= self.paused_until[1]
\* The cooldown has run out at time t (or none was started).
CooldownOver(self, t) ==
    \/ self.last_recognition_time = None
    \/ t - self.last_recognition_time[1] >= self.cooldown_sec
\* The clock values a later call can see.
LaterTimes == now..(MaxTime + MaxPause + 1)
\* The failure streak is counted from a point where the counter was zero and
\* no pause was set.
Counted == streak.from # "none"

\* C1: while a pause is in force (paused_until set, now before it) can_recognize
\* returns False and changes nothing, whatever the cooldown state; so it does
\* right after the max_failed_attempts-th consecutive on_recognition_failed.
C1_PausedBlocksRecognition ==
    /\ [](\A t \in LaterTimes :
            Paused(state, t) => can_recognize(state, t) = Outcome(state, FALSE))
    /\ [][(call'.op = "can_recognize" /\ Paused(state, now'))
            => (call'.ret = FALSE /\ state' = state)]_vars
    /\ []((call.op = "on_recognition_failed" /\ Counted
             /\ streak.n = state.max_failed_attempts)
            => can_recognize(state, now).ret = FALSE)

\* can_recognize was called and returned False during a pause reached by
\* max_failed_attempts consecutive failures, with no cooldown to wait for.
C1_Witness ==
    /\ call.op = "can_recognize"
    /\ call.ret = FALSE
    /\ Paused(state, now)
    /\ CooldownOver(state, now)
    /\ Counted
    /\ streak.n = state.max_failed_attempts

\* C2: not paused and last_recognition_time set: can_recognize returns False
\* while now - last_recognition_time < cooldown_sec and True from
\* now - last_recognition_time = cooldown_sec on.
C2_CooldownBoundary ==
    /\ [](\A t \in LaterTimes :
            (~Paused(state, t) /\ state.last_recognition_time # None)
              => (can_recognize(state, t).ret
                    <=> (t - state.last_recognition_time[1] >= state.cooldown_sec)))
    /\ [][(call'.op = "can_recognize" /\ ~Paused(state, now')
             /\ state.last_recognition_time # None)
            => (call'.ret
                  <=> (now' - state.last_recognition_time[1] >= state.cooldown_sec))]_vars

\* can_recognize returned True exactly when a positive cooldown ran out.
C2_Witness ==
    /\ call.op = "can_recognize"
    /\ call.ret = TRUE
    /\ state.cooldown_sec > 0
    /\ state.last_recognition_time # None
    /\ now - state.last_recognition_time[1] = state.cooldown_sec

\* C3: counted from consecutive_failures = 0 with no pause set and with no
\* success in between, the max_failed_attempts-th on_recognition_failed call
\* sets paused_until to the time of that call plus pause_duration_sec; after
\* fewer calls paused_until is still unset.
C3_PauseAfterMaxFailures ==
    /\ []((Counted /\ streak.n < state.max_failed_attempts)
            => state.paused_until = None)
    /\ []((call.op = "on_recognition_failed" /\ Counted
             /\ streak.n = state.max_failed_attempts)
            => state.paused_until = Some(now + state.pause_duration_sec))

\* The pause was set by the second of two consecutive failures.
C3_Witness ==
    /\ call.op = "on_recognition_failed"
    /\ Counted
    /\ state.max_failed_attempts = 2
    /\ streak.n = 2
    /\ state.paused_until = Some(now + state.pause_duration_sec)

\* The can_recognize call that finds an expired pause resets the failure
\* counter and clears the pause.
ExpiryResets ==
    (call'.op = "can_recognize" /\ Expired(state, now'))
      => (state'.consecutive_failures = 0 /\ state'.paused_until = None)
\* The first on_recognition_failed call after a pause expiry.
FirstFailureAfterExpiry ==
    /\ call'.op = "on_recognition_failed"
    /\ streak.from = "expiry"
    /\ streak.n = 0

\* C4 as stated: after a pause has expired the next can_recognize call resets
\* consecutive_failures and clears paused_until, and one on_recognition_failed
\* call after it sets no pause, whatever max_failed_attempts is.
C4_Original ==
    [][ExpiryResets /\ (FirstFailureAfterExpiry => state'.paused_until = None)]_vars

\* C4, amended: the same, for max_failed_attempts >= 2; with
\* max_failed_attempts = 1 that one failure sets the pause again.
C4_NoImmediateRepause ==
    [][/\ ExpiryResets
       /\ FirstFailureAfterExpiry =>
            (state'.paused_until = None <=> state.max_failed_attempts >= 2)]_vars

\* One failure after a pause expiry, and no pause.
C4_Witness ==
    /\ call.op = "on_recognition_failed"
    /\ streak = [from |-> "expiry", n |-> 1]
    /\ state.paused_until = None
    /\ state.consecutive_failures = 1

\* C5: update_silence_duration(True, d) adds d to the accumulator and returns
\* True exactly when the total reaches silence_duration_sec, False below it;
\* on that call last_recognition_time and last_result are cleared and the
\* accumulator is zero again (so the accumulator stays below the threshold
\* between calls); update_silence_duration(False, d) zeroes it and returns False.
C5_SilenceAccumulates ==
    /\ [](state.cumulative_silence_duration < state.silence_duration_sec)
    /\ [][call'.op = "update_silence_duration" =>
            LET total == state.cumulative_silence_duration + call'.args[2]
            IN IF call'.args[1]
               THEN IF total >= state.silence_duration_sec
                    THEN /\ call'.ret = TRUE
                         /\ state'.last_recognition_time = None
                         /\ state'.last_result = None
                         /\ state'.cumulative_silence_duration = 0
                    ELSE /\ call'.ret = FALSE
                         /\ state'.cumulative_silence_duration = total
                         /\ state'.last_recognition_time = state.last_recognition_time
                         /\ state'.last_result = state.last_result
               ELSE /\ call'.ret = FALSE
                    /\ state'.cumulative_silence_duration = 0]_vars

\* A silent call of one unit returned True: the total of the earlier silent
\* calls was one unit short of the threshold.
C5_Witness ==
    /\ call.op = "update_silence_duration"
    /\ call.args = <<TRUE, 1>>
    /\ call.ret = TRUE
    /\ state.last_recognition_time = None
    /\ state.last_result = None
    /\ state.cumulative_silence_duration = 0

\* C6: on_recognition(track) sets last_recognition_time to the time of the
\* call and last_result to the track, and zeroes consecutive_failures and the
\* silence accumulator, from every state.
C6_OnRecognitionEffect ==
    [][call'.op = "on_recognition" =>
         /\ state'.last_recognition_time = Some(now')
         /\ state'.last_result = Some(call'.args[1])
         /\ state'.consecutive_failures = 0
         /\ state'.cumulative_silence_duration = 0
         /\ state'.silence_start_time = None]_vars

\* on_recognition was called during a pause (so after failures) later than
\* the start of the run.
C6_Witness ==
    /\ call.op = "on_recognition"
    /\ state.paused_until # None
    /\ state.consecutive_failures = 0
    /\ state.last_recognition_time = Some(now)
    /\ now > 1

\* C8: get_status changes no field of the StateManager, at any time.
C8_StatusIsReadOnly ==
    [][call'.op = "get_status" => state' = state]_vars

(* ========================= claims on the trigger loop ================== *)
\* The last recognition attempt of the loop.
LastAttempt == history[Len(history)]
\* A step that samples the level and passes the trigger and the gate.
SampleStep == pc = "top" /\ pc' \in {"record", "silence"}
\* The clock when the gate of that step is evaluated.
GateTime == now + LoopInterval
\* A step in which a recognition attempt ends with the given kind of outcome.
AttemptEnds == pc = "record" /\ Len(history') = Len(history) + 1
FailedStep == AttemptEnds /\ history'[Len(history')].result = None
DuplicateStep ==
    AttemptEnds /\ history'[Len(history')].result # None /\ history'[Len(history')].same

\* C7: a failed attempt leaves last_recognition_time, last_result and the
\* silence accumulator as they were; no cooldown starts, so while
\* consecutive_failures is below max_failed_attempts every loud tick after the
\* failure (the next one first) attempts recognition again.
C7_FailureStartsNoCooldown ==
    /\ [][FailedStep =>
            /\ state'.last_recognition_time = state.last_recognition_time
            /\ state'.last_result = state.last_result
            /\ state'.cumulative_silence_duration = state.cumulative_silence_duration
            /\ state'.silence_start_time = state.silence_start_time]_vars
    /\ [][(/\ SampleStep
           /\ Len(history) > 0
           /\ LastAttempt.result = None
           /\ state.consecutive_failures < state.max_failed_attempts
           /\ current_db' > VolumeThresholdDb)
            => pc' = "record"]_vars

\* A failed attempt ended at t, the tick slept, and the very next sample was
\* loud: the loop is recording again although a cooldown is configured.
C7_Witness ==
    /\ pc = "record"
    /\ Len(history) > 0
    /\ LastAttempt.result = None
    /\ now = LastAttempt.t + LoopInterval + LoopInterval
    /\ state.consecutive_failures = 1
    /\ state.cooldown_sec > 0
    /\ state.last_recognition_time # None

\* The matches that were not the same track as the one before, in order.
NonDuplicates == SelectSeq(history, LAMBDA e : e.result # None /\ ~e.same)
\* The texts shown on the display sink (pushed, or printed in dry-run mode).
Shown == SelectSeq(display, LAMBDA c : c.op \in {"push", "would_display"})

\* C9: a match is shown on the display sink and appended to the log exactly
\* when is_same_track was False for it: the texts shown and the records of the
\* log are those of the non-duplicate matches, one each and in order, with
\* nothing for duplicates, failures and blocked ticks.  (The run that a failed
\* log write has ended is left out: its last match was shown and not logged.)
C9_LogHoldsNonDuplicates ==
    /\ Len(Shown) = Len(NonDuplicates)
    /\ \A i \in 1..Len(NonDuplicates) :
          Shown[i].text = display_text(NonDuplicates[i].result[1])
    /\ pc # "crashed" =>
         /\ Len(log) = Len(NonDuplicates)
         /\ \A i \in 1..Len(NonDuplicates) :
               log[i] = log_entry(NonDuplicates[i].result[1], NonDuplicates[i].t)

\* A new track, then blocked ticks, the same track again and a failure: one
\* record and one text.
C9_Witness ==
    /\ Len(history) = 3
    /\ history[1].result # None /\ ~history[1].same
    /\ history[2].result # None /\ history[2].same
    /\ history[3].result = None
    /\ state.cooldown_sec > 0
    /\ pc = "silence"
    /\ Len(log) = 1
    /\ Len(Shown) = 1

\* C10: a duplicate match restarts the cooldown like a new track:
\* last_recognition_time becomes the time of that match and nothing is shown
\* or logged; until a silence reset it stays so, and with loud input the next
\* attempt is made on the first tick at which cooldown_sec has passed since
\* that match, not before.
C10_DuplicateRestartsCooldown ==
    /\ [][DuplicateStep =>
            /\ state'.last_recognition_time = Some(now')
            /\ log' = log
            /\ display' = display]_vars
    /\ []((Len(history) > 0 /\ LastAttempt.result # None /\ LastAttempt.same
             /\ pc # "crashed" /\ state.last_recognition_time # None)
            => state.last_recognition_time = Some(LastAttempt.t))
    /\ [][(/\ SampleStep
           /\ Len(history) > 0
           /\ LastAttempt.result # None /\ LastAttempt.same
           /\ state.last_recognition_time # None
           /\ current_db' > VolumeThresholdDb)
            => (pc' = "record"
                  <=> GateTime - LastAttempt.t >= state.cooldown_sec)]_vars

\* The same track was matched again once the cooldown of its first match had
\* run out, a tick was blocked by the cooldown the duplicate restarted, and
\* the loop is recording once more; one record, one text.
C10_Witness ==
    /\ Len(history) = 2
    /\ history[1].result # None /\ ~history[1].same
    /\ history[2].result # None /\ history[2].same
    /\ state.cooldown_sec > 0
    /\ state.last_recognition_time = Some(history[2].t)
    /\ pc = "record"
    /\ now - history[2].t >= state.cooldown_sec
    /\ Len(log) = 1
    /\ Len(Shown) = 1

(* ===================== claims on the loop's contracts ================== *)
\* The silence check of the tick under way found sustained silence.
SilenceFired ==
    pc = "silence" /\ call'.op = "update_silence_duration" /\ call'.ret = TRUE

\* C11: when update_silence_duration returns True in a tick, the loop asks the
\* display to delete the notification and resets notification_deleted within
\* that tick; so notification_deleted is False whenever a tick begins.
C11_PendingClearConsumed ==
    /\ [][SilenceFired =>
            /\ ~state'.notification_deleted
            /\ ~dry_run =>
                 /\ Len(display') = Len(display) + 1
                 /\ display'[Len(display')].op = "delete"]_vars
    /\ [](pc = "top" => ~state.notification_deleted)

\* A recognition attempt begins: the tick goes from its top to the capture.
AttemptBegins == pc = "top" /\ pc' = "record"

\* C12 as stated: under continuous loud input two consecutive recognition
\* attempts begin at least cooldown_sec apart, whatever the earlier one
\* ended in.
C12_Original ==
    [][(AttemptBegins /\ Len(history) > 0)
         => now' - LastAttempt.g >= state.cooldown_sec]_vars

\* C12, amended: under continuous loud input an attempt that follows a match
\* (of a new track or of the same track) begins at least cooldown_sec after
\* that match was reported; an attempt that follows a failed one is not held
\* back by the cooldown.
C12_SpacedAfterMatch ==
    [][(AttemptBegins /\ Len(history) > 0 /\ LastAttempt.result # None)
         => now' - LastAttempt.t >= state.cooldown_sec]_vars

\* Under loud input only, an attempt begins exactly cooldown_sec after the
\* match before it.
C12_Witness ==
    /\ pc = "record"
    /\ ~quiet
    /\ Len(history) > 0
    /\ LastAttempt.result # None
    /\ state.cooldown_sec > LoopInterval + MaxCapture
    /\ now - LastAttempt.t = state.cooldown_sec
    /\ call.op = "can_recognize"

\* The silence threshold is configured below the volume threshold.
ThresholdsOrdered == config.silence_threshold_db < config.volume_threshold_db
\* The tick now at its silence check made a recognition attempt.
TickTriggered == pc = "silence" /\ Len(history) > 0 /\ LastAttempt.t = now
\* The silence check of a tick.
SilenceCheck == pc = "silence" /\ pc' = "top" /\ call'.op = "update_silence_duration"

\* C13: with silence_threshold_db < volume_threshold_db no tick both triggers
\* a capture and is counted as silent by update_silence_duration; and as long
\* as every sample has been below the silence threshold there has been no
\* capture and no call of the recognition service.
C13_LoudAndSilentExclusive ==
    /\ [][(ThresholdsOrdered /\ TickTriggered /\ SilenceCheck)
            => call'.args[1] = FALSE]_vars
    /\ []((ThresholdsOrdered /\ quiet)
            => (history = <<>> /\ pc \notin {"record", "crashed"}
                  /\ call.op \notin {"can_recognize", "recognize", "on_recognition",
                                     "on_recognition_failed", "log"}))

\* Silence from the first tick on until the silence check reports sustained
\* silence, and no attempt was made.
C13_Witness ==
    /\ ThresholdsOrdered
    /\ quiet
    /\ pc = "top"
    /\ call.op = "update_silence_duration"
    /\ call.ret = TRUE
    /\ now > 1 + 2 * LoopInterval
    /\ history = <<>>

\* The attempt under way ends without a match: recognize returned None, or
\* raised.
AttemptFails ==
    pc = "record" /\ call'.op \in {"recognize", "on_recognition_failed"}

\* C14: whatever way a request to the recognition service fails (network
\* error, HTTP error, non-zero status code, missing metadata, a response that
\* cannot be parsed), the failure is counted like a missing match:
\* consecutive_failures goes up by one, no exception leaves the loop and the
\* tick goes on to its silence check.
C14_FailuresHandledLikeNoMatch ==
    [][AttemptFails =>
         /\ pc' = "silence"
         /\ state'.consecutive_failures = state.consecutive_failures + 1]_vars

\* A pause is set, in force or not yet seen to have run out.
PauseSet == state.paused_until # None
\* Recognition is attempted with the pause and the failure counter cleared.
AttemptedAgain ==
    pc = "record" /\ state.paused_until = None /\ state.consecutive_failures = 0
\* The run is over: stopped by a signal, or at the end of the time followed.
RunOver ==
    \/ pc = "exited"
    \/ pc = "top" /\ (now + LoopInterval > MaxLoopTime
                        \/ Len(history) >= MaxRecognitions)

\* C15: a pause is never permanent.  It ends pause_duration_sec after it was
\* set at the latest; the first loud tick whose gate finds it run out clears
\* it together with the failure counter, with no call from outside, and
\* attempts recognition; so under loud input, with ticks and the clock going
\* on, a pause is always followed by a recognition attempt.
C15_PauseEnds ==
    /\ [](PauseSet => state.paused_until[1] <= now + state.pause_duration_sec)
    /\ [][(SampleStep /\ above_volume_threshold(current_db', config)
             /\ Expired(state, GateTime))
            => (pc' = "record" /\ state'.paused_until = None
                  /\ state'.consecutive_failures = 0)]_vars
    /\ (PauseSet ~> (AttemptedAgain \/ RunOver))

\* A recognition attempt begins on the tick that finds the pause run out,
\* after max_failed_attempts failures had set it.
C15_Witness ==
    /\ AttemptedAgain
    /\ call.op = "can_recognize"
    /\ streak = [from |-> "expiry", n |-> 0]
    /\ Len(history) = state.max_failed_attempts
    /\ LastAttempt.result = None
    /\ now >= LastAttempt.t + state.pause_duration_sec

\* The attempt under way ends with a match of a track other than the last
\* one, and the log file has no new line: the write failed.
LogWriteFails ==
    /\ AttemptEnds
    /\ history'[Len(history')].result # None
    /\ ~history'[Len(history')].same
    /\ Len(log') = Len(log)

\* C16: a log write that fails for the match of a new track does not end the
\* loop: the tick goes on to its silence check, and on_recognition is applied
\* for that match.
C16_LogFailureIsNotFatal ==
    [][LogWriteFails =>
         /\ pc' = "silence"
         /\ state'.last_result = history'[Len(history')].result
         /\ state'.last_recognition_time = Some(now')]_vars

\* The step sends a request to the display that fails.
DisplayFails(op) ==
    /\ Len(display') = Len(display) + 1
    /\ display'[Len(display')].op = op
    /\ ~display'[Len(display')].ok

C18_StopWaitsForTickBoundary ==
    [][pc = "record" => (pc' # "exited" /\ call'.op # "can_recognize")]_vars

\* When the run of silent input the tick under way belongs to began: at the
\* start of the sampling of its first tick, one loop interval before the
\* silence check that set silence_start_time.
SilentSince ==
    (IF state.silence_start_time = None THEN now ELSE state.silence_start_time[1])
      - LoopInterval

\* C19: the silence timer runs in wall-clock time: at the silence check of a
\* silent tick, sustained silence is reported exactly when the input has been
\* below the threshold for silence_duration_sec of time.time(), however long
\* the ticks lasted and however many there were.
C19_SilenceTimerIsWallClock ==
    [][(SilenceCheck /\ call'.args[1] = TRUE)
         => (call'.ret <=> (now - SilentSince >= state.silence_duration_sec))]_vars

\* C20: a tick captures and calls the recognition service only if its level
\* is strictly above volume_threshold_db and can_recognize returned True in
\* that tick; a tick whose level is at or below the threshold, or whose gate
\* is closed by the cooldown or a pause, goes to its silence check with no
\* capture, no request, and neither on_recognition nor on_recognition_failed.
C20_CaptureOnlyWhenLoudAndAllowed ==
    /\ [](pc = "record" =>
            /\ current_db > config.volume_threshold_db
            /\ call.op = "can_recognize"
            /\ call.ret = TRUE)
    /\ [][(SampleStep /\ (current_db' <= config.volume_threshold_db
                            \/ ~can_recognize(state, GateTime).ret))
            => /\ pc' = "silence"
               /\ call'.op \notin {"recognize", "on_recognition",
                                   "on_recognition_failed", "log"}
               /\ history' = history
               /\ log' = log
               /\ display' = display
               /\ state'.last_result = state.last_result
               /\ state'.last_recognition_time = state.last_recognition_time
               /\ state'.consecutive_failures <= state.consecutive_failures]_vars
    /\ [][(Len(history') # Len(history) \/ pc' = "crashed") => pc = "record"]_vars

\* A loud tick held back by the cooldown of an earlier match: the status was
\* read and no attempt was made.
C20_Witness ==
    /\ pc = "silence"
    /\ current_db > config.volume_threshold_db
    /\ call.op = "get_status"
    /\ call.ret.in_cooldown
    /\ ~call.ret.paused
    /\ Len(history) = 1
    /\ LastAttempt.t < now
    /\ state.last_recognition_time = Some(LastAttempt.t)

(* ================= further claims on the StateManager API ============== *)
\* Neither a pause nor a recognition time is recorded.
NothingRecorded(self) == self.paused_until = None /\ self.last_recognition_time = None

\* C21: whenever paused_until and last_recognition_time are both unset (as at
\* construction, and after a sustained-silence reset made while not paused)
\* can_recognize returns True, at any time of the call.
C21_FreshStateAllows ==
    /\ [](\A t \in LaterTimes :
            NothingRecorded(state) => can_recognize(state, t) = Outcome(state, TRUE))
    /\ [][(call'.op = "can_recognize" /\ NothingRecorded(state))
            => call'.ret = TRUE]_vars
    /\ [][(call'.op = "update_silence_duration" /\ call'.ret = TRUE
             /\ state.paused_until = None)
            => can_recognize(state', now').ret = TRUE]_vars

\* can_recognize returned True after a sustained-silence reset had cleared a
\* recognition whose cooldown was still running.
C21_Witness ==
    /\ call.op = "can_recognize"
    /\ call.ret = TRUE
    /\ NothingRecorded(state)
    /\ state.notification_deleted
    /\ state.cooldown_sec > now

\* What is_same_track is to return for a result, given the last one.
SameTitleAndArtist(self, result) ==
    /\ self.last_result # None
    /\ result.title = self.last_result[1].title
    /\ result.artist = self.last_result[1].artist

\* C22: is_same_track(result) is False when there is no last result, True
\* when title and artist both equal those of the last result (the album does
\* not count), False when the title or the artist differs; it changes nothing.
C22_SameTrackByTitleAndArtist ==
    /\ [](\A r \in Tracks :
            /\ state.last_result = None => ~is_same_track(state, r)
            /\ state.last_result # None =>
                 /\ (r.title = state.last_result[1].title
                       /\ r.artist = state.last_result[1].artist)
                      => is_same_track(state, r)
                 /\ (r.title # state.last_result[1].title
                       \/ r.artist # state.last_result[1].artist)
                      => ~is_same_track(state, r))
    /\ [][call'.op = "is_same_track"
            => (state' = state
                  /\ call'.ret = SameTitleAndArtist(state, call'.args[1]))]_vars

\* is_same_track returned True for a result whose album differs from that of
\* the last result.
C22_Witness ==
    /\ call.op = "is_same_track"
    /\ call.ret = TRUE
    /\ state.last_result # None
    /\ call.args[1].album # state.last_result[1].album
    /\ call.args[1].title = state.last_result[1].title
    /\ call.args[1].artist = state.last_result[1].artist

\* C23: with cooldown_sec = 0 can_recognize returns True whenever no pause is
\* in force (paused_until unset, or the time of the call at or past it),
\* whatever last_recognition_time is.
C23_ZeroCooldownAllows ==
    /\ [](\A t \in LaterTimes :
            (state.cooldown_sec = 0 /\ ~Paused(state, t))
              => can_recognize(state, t).ret = TRUE)
    /\ [][(call'.op = "can_recognize" /\ state.cooldown_sec = 0
             /\ ~Paused(state, now'))
            => call'.ret = TRUE]_vars

\* With no cooldown, can_recognize returned True at the very time of the
\* last recognition.
C23_Witness ==
    /\ call.op = "can_recognize"
    /\ call.ret = TRUE
    /\ state.cooldown_sec = 0
    /\ state.last_recognition_time = Some(now)

\* The step changes last_result or last_recognition_time.
TrackOrTimeChanges ==
    \/ state'.last_result # state.last_result
    \/ state'.last_recognition_time # state.last_recognition_time

\* C24: last_result is set exactly when last_recognition_time is set:
\* on_recognition sets both, the sustained-silence reset clears both, and no
\* other operation changes either of them.
C24_TrackAndTimeTogether ==
    /\ [](state.last_result = None <=> state.last_recognition_time = None)
    /\ [][call'.op = "on_recognition"
            => (state'.last_result = Some(call'.args[1])
                  /\ state'.last_recognition_time = Some(now'))]_vars
    /\ [][(call'.op = "update_silence_duration" /\ call'.ret = TRUE)
            => (state'.last_result = None
                  /\ state'.last_recognition_time = None)]_vars
    /\ [][TrackOrTimeChanges
            => \/ call'.op = "on_recognition"
               \/ call'.op = "update_silence_duration" /\ call'.ret = TRUE]_vars

\* A recognition was recorded, and the sustained-silence reset has cleared
\* the track and the time together.
C24_Witness ==
    /\ call.op = "update_silence_duration"
    /\ call.ret = TRUE
    /\ streak.from = "success"
    /\ state.last_result = None
    /\ state.last_recognition_time = None

(* ========================= claims on the log reader ==================== *)
\* The lines of a file that hold an entry, in file order.
EntryLines(lines) == SelectSeq(lines, LAMBDA l : l.kind = "entry")
\* A file has a line of the given kind.
HasLine(lines, kind) == \E i \in 1..Len(lines) : lines[i].kind = kind

\* C25: read_logs skips blank and malformed lines without failing and returns
\* the entries of the other lines most recent first (the reverse of their
\* order in the file), cut to the first limit of them when a limit (not
\* negative) is given; it returns the empty list when the file is missing.
C25_ReadLogsRecentFirst ==
    reader.entries # None =>
        LET out == reader.entries[1]
        IN IF reader.file = None
           THEN out = <<>>
           ELSE LET kept == EntryLines(reader.file[1])
                    n == Len(kept)
                IN /\ reader.limit = None => Len(out) = n
                   /\ (reader.limit # None /\ reader.limit[1] >= 0)
                        => Len(out) = (IF reader.limit[1] < n THEN reader.limit[1] ELSE n)
                   /\ Len(out) <= n
                   /\ \A i \in 1..Len(out) : out[i] = kept[n + 1 - i].value

\* A file with a blank line, a malformed line and two entries was read with
\* limit 1: the later entry alone was returned.
C25_Witness ==
    /\ reader.entries # None
    /\ reader.file # None
    /\ HasLine(reader.file[1], "blank")
    /\ HasLine(reader.file[1], "malformed")
    /\ Len(EntryLines(reader.file[1])) = 2
    /\ EntryLines(reader.file[1])[1].value # EntryLines(reader.file[1])[2].value
    /\ reader.limit = Some(1)
    /\ reader.entries[1] = <<EntryLines(reader.file[1])[2].value>>

(* ================== further claims on the trigger loop ================= *)
\* The tick now at its silence check was loud.
LoudTick == pc = "silence" /\ current_db > config.volume_threshold_db

\* C26 as stated: in every tick the silence accumulator is updated before the
\* volume trigger and the can_recognize gate are evaluated, so that a
\* sustained-silence reset firing in a tick is in place when that tick decides
\* on recognition: a loud tick in which the reset fires, with no pause in
\* force, attempts recognition.
C26_Original ==
    [][(SilenceFired /\ LoudTick /\ ~Paused(state, now)) => TickTriggered]_vars

\* C26, amended: in every tick the volume trigger and the can_recognize gate
\* are evaluated first, on the state the tick began with, and the silence
\* accumulator is updated at the end of the tick; a sustained-silence reset
\* firing in a tick takes effect from the next tick on.  With
\* silence_threshold_db < volume_threshold_db the tick in which it fires is
\* never loud, so that the order changes no decision.
C26_SilenceCheckedAfterGate ==
    /\ [][SampleStep =>
            /\ state'.cumulative_silence_duration = state.cumulative_silence_duration
            /\ state'.silence_start_time = state.silence_start_time
            /\ state'.last_recognition_time = state.last_recognition_time
            /\ pc' = "record" <=> (current_db' > config.volume_threshold_db
                                     /\ can_recognize(state, GateTime).ret)]_vars
    /\ [][(pc = "silence" /\ pc' # "exited")
            => (pc' = "top" /\ call'.op = "update_silence_duration"
                  /\ call'.args[1] = (current_db < config.silence_threshold_db))]_vars
    /\ [][(SilenceFired /\ ThresholdsOrdered) => ~LoudTick]_vars

\* A loud tick was held back by the cooldown, and the silence check that
\* ends it is about to report sustained silence and clear that cooldown.
C26_Witness ==
    /\ LoudTick
    /\ current_db < config.silence_threshold_db
    /\ call.op = "get_status"
    /\ call.ret.in_cooldown
    /\ ~call.ret.paused
    /\ state.last_recognition_time # None
    /\ state.cumulative_silence_duration + LoopInterval >= state.silence_duration_sec

\* C27: every trigger makes one capture and one request to the recognition
\* service, and is followed in the same tick by exactly one report of the
\* outcome to the StateManager: on_recognition for a match,
\* on_recognition_failed otherwise; then the tick goes to its silence check.
C27_OneAttemptOneReport ==
    [][pc = "record" =>
         /\ pc' = "silence"
         /\ Len(history') = Len(history) + 1
         /\ call'.op = (IF history'[Len(history')].result # None
                        THEN "on_recognition"
                        ELSE "on_recognition_failed")
         /\ history'[Len(history')].result # None
              => (state'.last_result = history'[Len(history')].result
                    /\ state'.consecutive_failures = 0)
         /\ history'[Len(history')].result = None
              => state'.consecutive_failures = state.consecutive_failures + 1]_vars

\* C28: under the trigger loop, with max_failed_attempts >= 1,
\* consecutive_failures stays within 0..max_failed_attempts, and paused_until
\* is set exactly when consecutive_failures = max_failed_attempts.
C28_FailuresBoundedAndPauseExact ==
    state.max_failed_attempts >= 1 =>
        /\ state.consecutive_failures >= 0
        /\ state.consecutive_failures <= state.max_failed_attempts
        /\ state.paused_until # None
             <=> state.consecutive_failures = state.max_failed_attempts

\* The second failure in a row has just set the pause.
C28_Witness ==
    /\ pc = "silence"
    /\ call.op = "on_recognition_failed"
    /\ state.max_failed_attempts = 2
    /\ state.consecutive_failures = 2
    /\ state.paused_until = Some(now + state.pause_duration_sec)
    /\ Len(history) = 2

\* C29: under the trigger loop a pause in force is never extended or started
\* again: once set, paused_until keeps its value until the gate of a tick
\* finds it run out and clears it; on_recognition_failed is reached only
\* after can_recognize returned True, with paused_until unset.
C29_PauseKeepsItsEnd ==
    /\ [][state.paused_until # None =>
            \/ state'.paused_until = state.paused_until
            \/ /\ state'.paused_until = None
               /\ SampleStep
               /\ now' >= state.paused_until[1]]_vars
    /\ [](pc = "record" => state.paused_until = None)
    /\ [][call'.op = "on_recognition_failed" /\ pc = "record"
            => state.paused_until = None]_vars

\* A loud tick during a pause: the status was read, and the pause still ends
\* where the failure that set it put it.
C29_Witness ==
    /\ pc = "silence"
    /\ call.op = "get_status"
    /\ call.ret.paused
    /\ Len(history) > 0
    /\ LastAttempt.result = None
    /\ now > LastAttempt.t
    /\ now < LastAttempt.t + state.pause_duration_sec
    /\ state.paused_until = Some(LastAttempt.t + state.pause_duration_sec)

\* C30: with a silence duration above zero and positive deltas, the silence
\* accumulator is at least 0 and below silence_duration_sec after every call
\* of a StateManager method: the update_silence_duration call in which it
\* reaches the duration returns True and leaves it at 0, and any other silent
\* update leaves the sum below the duration.
C30_AccumulatorBelowDuration ==
    /\ [](/\ state.silence_duration_sec > 0
          /\ 0 <= state.cumulative_silence_duration
          /\ state.cumulative_silence_duration < state.silence_duration_sec)
    /\ [][(call'.op = "update_silence_duration" /\ call'.args[1]
             /\ call'.args[2] > 0) =>
            LET total == state.cumulative_silence_duration + call'.args[2]
            IN IF total >= state.silence_duration_sec
               THEN call'.ret = TRUE /\ state'.cumulative_silence_duration = 0
               ELSE call'.ret = FALSE /\ state'.cumulative_silence_duration = total]_vars

\* A silent update has just brought the accumulator to the duration: it
\* returned True, and the accumulator and the start of the silence are reset.
C30_Witness ==
    /\ call.op = "update_silence_duration"
    /\ call.args[1]
    /\ call.args[2] > 0
    /\ call.ret = TRUE
    /\ state.cumulative_silence_duration = 0
    /\ state.silence_start_time = None
    /\ state.notification_deleted

\* An update_silence_duration call detects sustained silence.
SilenceDetected == call'.op = "update_silence_duration" /\ call'.ret = TRUE

\* C31: the reset made at sustained silence leaves paused_until and
\* consecutive_failures as they were: it clears the time of the last
\* recognition and the last track, and with a pause in force can_recognize
\* returns False afterwards at every time before paused_until, as it did.
C31_SilenceKeepsPause ==
    [][SilenceDetected =>
         /\ state'.paused_until = state.paused_until
         /\ state'.consecutive_failures = state.consecutive_failures
         /\ state'.last_recognition_time = None
         /\ state'.last_result = None
         /\ \A t \in LaterTimes :
               Paused(state, t) => can_recognize(state', t) = Outcome(state', FALSE)]_vars

\* Sustained silence has just been detected while a pause is in force.
C31_Witness ==
    /\ call.op = "update_silence_duration"
    /\ call.ret = TRUE
    /\ Paused(state, now)
    /\ state.consecutive_failures >= state.max_failed_attempts
    /\ state.last_recognition_time = None
    /\ state.last_result = None
    /\ ~can_recognize(state, now).ret

\* The matches among the attempts of the loop.
Matches == SelectSeq(history, LAMBDA e : e.result # None)
LastMatch == Matches[Len(Matches)]
\* A track was matched, and sustained silence has reset the state since: no
\* last result is kept (the run that a failed log write ended is left out,
\* its match was never handed to on_recognition).
AfterSilenceReset ==
    /\ Len(Matches) > 0
    /\ pc # "crashed"
    /\ state.last_result = None
\* The attempt under way ends with a match.
MatchStep == AttemptEnds /\ history'[Len(history')].result # None

\* C32: after a sustained-silence reset the first loud tick that finds no
\* pause in force attempts recognition, whether or not cooldown_sec has gone
\* by since the last match; and the match that follows is not a duplicate,
\* whatever its title and artist: it is shown on the display sink and
\* logger.log is called for it (the line is in the log unless the write
\* raised).
C32_SilenceRearmsRecognition ==
    /\ [][(SampleStep /\ above_volume_threshold(current_db', config)
             /\ AfterSilenceReset /\ ~Paused(state, GateTime))
            => (pc' = "record" /\ now' = GateTime)]_vars
    /\ [][(MatchStep /\ AfterSilenceReset) =>
            LET e == history'[Len(history')]
            IN /\ ~e.same
               /\ Len(display') = Len(display) + 1
               /\ display'[Len(display')].op \in {"push", "would_display"}
               /\ display'[Len(display')].text = display_text(e.result[1])
               /\ \/ /\ pc' = "silence"
                     /\ log' = Append(log, log_entry(e.result[1], e.t))
                     /\ state'.last_result = e.result
                  \/ /\ pc' = "crashed"
                     /\ call'.op = "log"]_vars

\* After sustained silence the track matched before it is matched again,
\* before cooldown_sec has gone by since that match, and is shown and logged
\* a second time.
C32_Witness ==
    /\ pc = "silence"
    /\ Len(Matches) >= 2
    /\ LastAttempt.result # None
    /\ ~LastAttempt.same
    /\ LastAttempt.result[1].title = Matches[Len(Matches) - 1].result[1].title
    /\ LastAttempt.result[1].artist = Matches[Len(Matches) - 1].result[1].artist
    /\ LastAttempt.g - Matches[Len(Matches) - 1].t < state.cooldown_sec
    /\ state.cooldown_sec > 0
    /\ Len(log) = Len(Matches)
    /\ log[Len(log)].title = log[Len(log) - 1].title
    /\ state.last_result = LastAttempt.result

\* The silence check of a tick finds the level below the silence threshold.
SilentCheck == SilenceCheck /\ call'.args[1]
\* The loop asks the display client to delete the notification.
DeleteAsked ==
    /\ Len(display') = Len(display) + 1
    /\ display'[Len(display')].op = "delete"
\* The silence check of a tick counts on or fires, by the ticks counted so far.
SilenceCounts ==
    LET total == state.cumulative_silence_duration + LoopInterval
    IN IF total >= state.silence_duration_sec
       THEN call'.ret = TRUE /\ state'.cumulative_silence_duration = 0
       ELSE call'.ret = FALSE /\ state'.cumulative_silence_duration = total

\* C33 as stated: sustained silence fires again every time the accumulator
\* reaches silence_duration_sec in a run of silent ticks, and the loop asks
\* the display to delete the notification on each firing.
C33_Original ==
    /\ [][SilentCheck => SilenceCounts]_vars
    /\ [][(SilentCheck /\ call'.ret = TRUE) => DeleteAsked]_vars

\* C33, amended: sustained silence fires again every time the accumulator
\* reaches silence_duration_sec in a run of silent ticks, once in
\* silence_duration_sec / loop_interval silent ticks; on each firing the loop
\* calls delete_notification of the display client, unless it runs in dry-run
\* mode, where the display is left alone.
C33_SilenceFiresAgain ==
    /\ [][SilentCheck => SilenceCounts]_vars
    /\ [][(SilentCheck /\ call'.ret = TRUE)
            => IF dry_run THEN display' = display ELSE DeleteAsked]_vars

\* Every tick so far was silent, and sustained silence has just fired for the
\* second time: the display was asked to delete a notification twice.
C33_Witness ==
    /\ pc = "top"
    /\ call.op = "update_silence_duration"
    /\ call.ret = TRUE
    /\ quiet
    /\ history = <<>>
    /\ ~dry_run
    /\ Len(display) = 2
    /\ display[1].op = "delete"
    /\ display[2].op = "delete"
    /\ state.cumulative_silence_duration = 0

\* The attempt under way ends with a match of the given track, and the loop
\* goes on.
MatchOf(r) == MatchStep /\ history'[Len(history')].result = Some(r) /\ pc' = "silence"
\* The step sends a push of the given track to the display.
PushOf(r) ==
    /\ Len(display') = Len(display) + 1
    /\ display'[Len(display')].op = "push"
    /\ display'[Len(display')].text = display_text(r)

PushCall ==
    /\ Len(display') = Len(display) + 1
    /\ call'.op = "push_notification"
DeleteCall ==
    /\ Len(display') = Len(display) + 1
    /\ call'.op = "delete_notification"
\* The delete call sends a request to the device.
DeleteSent == DeleteCall /\ display'[Len(display')].text # None
\* What a delete call does with the id kept.
DeleteKeepsOrClears ==
    /\ DeleteSent <=> lametric.last_notification_id # None
    /\ display'[Len(display')].text = lametric.last_notification_id
    /\ ~DeleteSent => (call'.ret = FALSE /\ lametric' = lametric)
    /\ IF call'.ret
       THEN lametric'.last_notification_id = None
       ELSE lametric' = lametric

\* C35 as stated: the client keeps the id of the last notification pushed
\* successfully (a failed push changes nothing); delete_notification() sends
\* a request exactly when an id is kept, and names that id; without one it
\* returns False; a delete that succeeds clears the id, so that further
\* deletes send nothing until a push succeeds; a delete that fails leaves
\* the id.
C35_Original ==
    /\ [][PushCall =>
            IF call'.ret
            THEN lametric'.last_notification_id = Some(Len(display'))
            ELSE lametric' = lametric]_vars
    /\ [][DeleteCall => DeleteKeepsOrClears]_vars

\* C35, amended: the client keeps the id the device last named in its answer
\* to a push; a push that fails, and a push that succeeds with an answer
\* naming no id, leave the id kept as it was.  delete_notification() sends a
\* request exactly when an id is kept, and names that id; without one it
\* returns False; a delete that succeeds clears the id, so that further
\* deletes send nothing until a push is answered with an id; a delete that
\* fails leaves the id.
C35_ClientKeepsLastNamedId ==
    /\ [][PushCall =>
            LET e == display'[Len(display')]
            IN /\ call'.ret = e.ok
               /\ IF e.ok /\ e.id # None
                  THEN lametric'.last_notification_id = e.id
                  ELSE lametric' = lametric]_vars
    /\ [][DeleteCall => DeleteKeepsOrClears]_vars

\* A push answered with an id, a push that succeeded with no id named, a
\* delete that named the id of the first push and succeeded, and a delete
\* that sent nothing and returned False.
C35_Witness ==
    /\ Len(display) = 4
    /\ display[1].op = "push" /\ display[1].ok /\ display[1].id = Some(1)
    /\ display[2].op = "push" /\ display[2].ok /\ display[2].id = None
    /\ display[3].op = "delete" /\ display[3].ok /\ display[3].text = Some(1)
    /\ display[4].op = "delete" /\ ~display[4].ok /\ display[4].text = None
    /\ call.op = "delete_notification"
    /\ call.ret = FALSE
    /\ lametric.last_notification_id = None

============================================================================
